---- MODULE Spec2Model ----
(***************************************************************************)
(* structure-id: structural fingerprinting engine.                         *)
(*                                                                         *)
(* Two implementations live in the repository and both are modelled:       *)
(*   "part_002" - src/unnamed/part_002 (signature hash and RESET_SEED in   *)
(*                L0, export/import, registerStructure)                    *)
(*   "index"    - src/src/index.ts (L0 is the traversal's level-0 sum)     *)
(*                                                                         *)
(* Representation of strings.  Registry keys are TLA+ strings built the    *)
(* way the code builds them.  An ID string "L0:x-L1:y-..." is modelled as  *)
(* the list of its parts (idParts before join("-")); a part is a record    *)
(* [level, hi, lo] standing for the text "L{level}:{hi * 2^32 + lo}".      *)
(* The text "undefined" is the one-part list <<UndefinedPart>>; an empty    *)
(* text between or after dashes is the part EmptyPart.                     *)
(***************************************************************************)
EXTENDS Integers, Sequences, FiniteSets, TLC

\* ---------------------------------------------------------------- bounds
MaxCount == 3
MaxSteps == 4

\* ------------------------------------------------------ values and heap
Num(v) == [t |-> "number", v |-> v]
Str(v) == [t |-> "string", v |-> v]
Bool(v) == [t |-> "boolean", v |-> v]
Ref(o) == [t |-> "ref", v |-> o]

Obj(props) == [kind |-> "object", props |-> props, elems |-> <<>>]
Arr(elems) == [kind |-> "array", props |-> <<>>, elems |-> elems]

\* nesting depth of the deepest chain the callers build
ChainDepth == 32
ChainRoot == 29
ChainIds == ChainRoot..(ChainRoot + ChainDepth)

\* {n: {n: {n: ... {}}}}: object ChainRoot + d sits at depth d of the chain
Chain ==
  [o \in ChainIds |->
     IF o = ChainRoot + ChainDepth THEN Obj(<< >>)
     ELSE Obj(<< <<"n", Ref(o + 1)>> >>)]

\* The objects callers build.  props lists the properties in insertion order.
TreesAndCycles ==
  <<
    Obj(<< <<"a", Num(0)>>, <<"b", Str(1)>> >>),        \* 1  {a: 0, b: "x"}
    Obj(<< <<"b", Str(2)>>, <<"a", Num(42)>> >>),       \* 2  {b: "y", a: 42}
    Obj(<< <<"a", Num(0)>>, <<"c", Str(1)>> >>),        \* 3  {a: 0, c: "x"}
    Obj(<< <<"a", Str(0)>>, <<"b", Num(1)>> >>),        \* 4  {a: "", b: 1}
    Arr(<< Num(0), Num(1) >>),                          \* 5  [0, 1]
    Arr(<< Num(0), Num(1), Num(2) >>),                  \* 6  [0, 1, 2]
    Arr(<< Num(0), Str(1) >>),                          \* 7  [0, "x"]
    Obj(<< >>),                                         \* 8  {}
    Arr(<< >>),                                         \* 9  []
    Obj(<< <<"n", Ref(12)>>, <<"b", Bool(0)>> >>),      \* 10 {n: {a, b}, b: false}
    Obj(<< <<"b", Bool(1)>>, <<"n", Ref(13)>> >>),      \* 11 {b: true, n: {b, a}}
    Obj(<< <<"a", Num(0)>>, <<"b", Str(0)>> >>),        \* 12
    Obj(<< <<"b", Str(3)>>, <<"a", Num(7)>> >>),        \* 13
    Obj(<< <<"n", Ref(15)>>, <<"b", Bool(0)>> >>),      \* 14 {n: {a, c}, b: false}
    Obj(<< <<"a", Num(0)>>, <<"c", Str(0)>> >>),        \* 15
    Obj(<< <<"a", Num(0)>>, <<"n", Ref(16)>> >>),       \* 16 o = {a: 0}; o.n = o
    Obj(<< <<"n", Ref(17)>>, <<"a", Num(5)>> >>),       \* 17 the same, other object
    Obj(<< <<"b", Bool(0)>>, <<"n", Ref(19)>> >>),      \* 18 parent {b, n: child}
    Obj(<< <<"n", Ref(18)>> >>),                        \* 19 child {n: parent}
    Obj(<< <<"n", Ref(21)>>, <<"b", Bool(1)>> >>),      \* 20 parent, other objects
    Obj(<< <<"n", Ref(20)>> >>),                        \* 21
    Obj(<< <<"n", Ref(23)>> >>),                        \* 22 cycle 22 -> 23 -> 24 -> 22
    Obj(<< <<"n", Ref(24)>> >>),                        \* 23
    Obj(<< <<"n", Ref(22)>> >>),                        \* 24
    Obj(<< <<"n", Ref(26)>> >>),                        \* 25 cycle 25 -> 26 -> 27 -> 25
    Obj(<< <<"n", Ref(27)>> >>),                        \* 26
    Obj(<< <<"n", Ref(25)>> >>),                        \* 27
    Arr(<< Num(0), Ref(28) >>)                          \* 28 arr = [0]; arr.push(arr)
  >>

\* objects that share a sub-object, and objects whose children are exchanged
SharedAndSwapped ==
  [o \in 62..73 |->
     << Obj(<< <<"a", Ref(64)>>, <<"b", Ref(64)>> >>),  \* 62 s = {a: 0}; {a: s, b: s}
        Obj(<< <<"a", Ref(65)>>, <<"b", Ref(66)>> >>),  \* 63 {a: {a: 0}, b: {a: 0}}
        Obj(<< <<"a", Num(0)>> >>),                     \* 64
        Obj(<< <<"a", Num(0)>> >>),                     \* 65
        Obj(<< <<"a", Num(0)>> >>),                     \* 66
        Obj(<< <<"a", Ref(69)>>, <<"b", Ref(70)>> >>),  \* 67 {a: {a: 0}, b: [true]}
        Obj(<< <<"a", Ref(72)>>, <<"b", Ref(71)>> >>),  \* 68 {a: [false], b: {a: 1}}
        Obj(<< <<"a", Num(0)>> >>),                     \* 69
        Arr(<< Bool(1) >>),                             \* 70
        Obj(<< <<"a", Num(1)>> >>),                     \* 71
        Arr(<< Bool(0) >>),                             \* 72
        Arr(<< Str(1), Num(0) >>)                       \* 73 ["x", 0]
     >>[o - 61]]

Heap == TreesAndCycles @@ Chain @@ SharedAndSwapped

\* ------------------------------------------------------------ TYPE_BITS
TYPE_BITS ==
  [root |-> 0, number |-> 1, string |-> 2, boolean |-> 4, bigint |-> 8,
   null |-> 16, undefined |-> 32, symbol |-> 64, object |-> 128, array |-> 256]

\* TYPE_BITS[type] || 0n
TypeBit(type) == IF type \in DOMAIN TYPE_BITS THEN TYPE_BITS[type] ELSE 0

\* typeof value
TypeOf(value) ==
  IF value.t = "ref" \/ value.t = "null" THEN "object" ELSE value.t

IsArray(heap, value) == value.t = "ref" /\ heap[value.v].kind = "array"

isObject(heap, value) ==
  TypeOf(value) = "object" /\ value.t # "null" /\ ~IsArray(heap, value)

\* null test written as a falsiness test: if (!value) return "null"
getType_falsy(heap, value) ==
  IF value.t = "null" \/ (value.t \in {"number", "string", "boolean"} /\ value.v = 0)
  THEN "null"
  ELSE IF value.t = "undefined" THEN "undefined"
  ELSE IF IsArray(heap, value) THEN "array"
  ELSE TypeOf(value)

getType(heap, value) ==
  IF value.t = "null" THEN "null"
  ELSE IF value.t = "undefined" THEN "undefined"
  ELSE IF IsArray(heap, value) THEN "array"
  ELSE TypeOf(value)

\* ------------------------------------------------------- string helpers
RECURSIVE Join(_, _)
Join(parts, sep) ==
  IF Len(parts) = 0 THEN ""
  ELSE IF Len(parts) = 1 THEN parts[1]
  ELSE parts[1] \o sep \o Join(Tail(parts), sep)

\* Property names in the order of their UTF-16 code units.
KeyOrder == <<"a", "b", "c", "n">>
KeyRank(k) == CHOOSE i \in 1..Len(KeyOrder) : KeyOrder[i] = k

RECURSIVE InsertSorted(_, _)
InsertSorted(k, sorted) ==
  IF Len(sorted) = 0 THEN <<k>>
  ELSE IF KeyRank(k) < KeyRank(Head(sorted)) THEN <<k>> \o sorted
  ELSE <<Head(sorted)>> \o InsertSorted(k, Tail(sorted))

\* Object.keys(obj) used without .sort()
SortKeys_insertionOrder(keys) == keys

RECURSIVE SortKeys(_)
SortKeys(keys) ==
  IF Len(keys) = 0 THEN <<>> ELSE InsertSorted(Head(keys), SortKeys(Tail(keys)))

\* Object.keys(obj): own property names in insertion order
ObjectKeys(node) == [i \in 1..Len(node.props) |-> node.props[i][1]]

\* objValue[key]
PropValue(node, key) ==
  node.props[CHOOSE i \in 1..Len(node.props) : node.props[i][1] = key][2]

\* ------------------------------------------- registry and traversal
\* traversal state: km = GLOBAL_KEY_MAP, nb = nextBit,
\*                  lh = levelHashes, om = objectMap,
\*                  ex = the objects whose fields or elements were recursed
\*                       into, in order (history of the call, read by no one)
\* getBit returns the state after the lookup and the bit of the key

\* nextBit <<= 1n is left out: the watermark stays where it was
getBit_sameBit(ts, key) ==
  IF key \in DOMAIN ts.km
  THEN [ts |-> ts, bit |-> ts.km[key]]
  ELSE [ts |-> [ts EXCEPT !.km = (key :> ts.nb) @@ @], bit |-> ts.nb]

getBit(ts, key) ==
  IF key \in DOMAIN ts.km
  THEN [ts |-> ts, bit |-> ts.km[key]]
  ELSE [ts |-> [ts EXCEPT !.km = (key :> ts.nb) @@ @, !.nb = ts.nb * 2],
        bit |-> ts.nb]

\* BigInt(1 << level): the shift is a 32-bit signed shift, count taken mod 32
LevelSeed(level) ==
  IF level % 32 = 31 THEN -2147483647 - 1 ELSE 2 ^ (level % 32)

\* if (!levelHashes[level]) levelHashes[level] = BigInt(1 << level)
InitLevel(ts, level) ==
  IF level \notin DOMAIN ts.lh \/ ts.lh[level] = 0
  THEN [ts EXCEPT !.lh = (level :> LevelSeed(level)) @@ @]
  ELSE ts

\* levelHashes[level] += x
AddLevel(ts, level, x) == [ts EXCEPT !.lh[level] = @ + x]

AddGot(g, level) == AddLevel(g.ts, level, g.bit)

\* levelHashes[level] += getBit(key)
AddBit(ts, level, key) == AddGot(getBit(ts, key), level)

\* path.join("."): a path is kept as the text its join gives
\* [...path, key]
PathTo(path, key) == IF path = "" THEN key ELSE path \o "." \o key

getObjectSignature(heap, o, path) ==
  IF heap[o].kind = "object"
  THEN path \o ".{" \o Join(SortKeys(ObjectKeys(heap[o])), ",") \o "}"
  ELSE path \o ".[" \o ToString(Len(heap[o].elems)) \o "]"

IndexKey(i) == "[" \o ToString(i) \o "]"

\* processStructure up to levelHashes[level] += TYPE_BITS[type] || 0n
WithTypeBit(ts, heap, value, level) ==
  AddLevel(InitLevel(ts, level), level, TypeBit(getType(heap, value)))

\* the two tests that end processStructure for a value that is not traversed
IsLeaf(heap, value) ==
  \/ getType(heap, value) \notin {"object", "array"}
  \/ ~(isObject(heap, value) \/ IsArray(heap, value))

\* the visit is recorded for nested objects only, not for the root
Entered_skipsRoot(ts, heap, value, level, path) ==
  AddBit([ts EXCEPT !.om = IF level = 0 THEN @
                           ELSE (value.v :> getObjectSignature(heap, value.v, path)) @@ @,
                    !.ex = Append(@, value.v)],
         level, "type:" \o getType(heap, value))

\* objectMap.set(objValue, objSig); levelHashes[level] += getBit(`type:${type}`)
Entered(ts, heap, value, level, path) ==
  AddBit([ts EXCEPT !.om = (value.v :> getObjectSignature(heap, value.v, path)) @@ @,
                    !.ex = Append(@, value.v)],
         level, "type:" \o getType(heap, value))

RECURSIVE processStructure(_, _, _, _, _)
RECURSIVE processKeys(_, _, _, _, _, _, _)
RECURSIVE processItems(_, _, _, _, _, _)

\* the value of the last of several properties is not processed
processKeys_skipsLast(ts, heap, o, keys, n, level, path) ==
  IF n = 0 THEN ts
  ELSE IF n > 1 /\ n = Len(keys)
  THEN AddBit(processKeys(ts, heap, o, keys, n - 1, level, path), level, keys[n])
  ELSE processStructure(
         AddBit(processKeys(ts, heap, o, keys, n - 1, level, path), level, keys[n]),
         heap, PropValue(heap[o], keys[n]), level + 1, PathTo(path, keys[n]))

\* for (const key of keys) { levelHashes[level] += getBit(key); processStructure(...) }
\* the state after the first n keys
processKeys(ts, heap, o, keys, n, level, path) ==
  IF n = 0 THEN ts
  ELSE processStructure(
         AddBit(processKeys(ts, heap, o, keys, n - 1, level, path), level, keys[n]),
         heap, PropValue(heap[o], keys[n]), level + 1, PathTo(path, keys[n]))

\* for (let i = 0; i < arrayValue.length; i++) { ... }
\* the state after the first n items (indices 0 .. n-1)
processItems(ts, heap, o, n, level, path) ==
  IF n = 0 THEN ts
  ELSE processStructure(
         AddBit(processItems(ts, heap, o, n - 1, level, path), level, IndexKey(n - 1)),
         heap, heap[o].elems[n], level + 1, PathTo(path, IndexKey(n - 1)))

processStructure(ts, heap, value, level, path) ==
  CASE IsLeaf(heap, value) ->
         WithTypeBit(ts, heap, value, level)
    [] ~IsLeaf(heap, value) /\ value.v \in DOMAIN ts.om ->
         AddBit(WithTypeBit(ts, heap, value, level), level,
                "circular:" \o ts.om[value.v])
    [] ~IsLeaf(heap, value) /\ value.v \notin DOMAIN ts.om
         /\ getType(heap, value) = "object" ->
         processKeys(Entered(WithTypeBit(ts, heap, value, level), heap, value, level, path),
                     heap, value.v, SortKeys(ObjectKeys(heap[value.v])),
                     Len(heap[value.v].props), level, path)
    [] OTHER ->
         processItems(
           AddBit(Entered(WithTypeBit(ts, heap, value, level), heap, value, level, path),
                  level, "length:" \o ToString(Len(heap[value.v].elems))),
           heap, value.v, Len(heap[value.v].elems), level, path)

\* ------------------------------------------------------------- ID parts
Part(level, v) == [level |-> level, hi |-> 0, lo |-> v]

\* the text "undefined" (template literal of a missing cache entry)
UndefinedPart == [level |-> -1, hi |-> 0, lo |-> 0]

\* the empty text: [l0Part, ""].join("-") is "L0:x-"
EmptyPart == [level |-> -2, hi |-> 0, lo |-> 0]

\* [l0Part, structureSignature].join("-")
JoinSignature(l0Part, structureSignature) ==
  IF structureSignature = <<>> THEN <<l0Part, EmptyPart>>
  ELSE <<l0Part>> \o structureSignature

\* the level numbers in ascending order
SortedLevels(S) ==
  [i \in 1..Cardinality(S) |->
     CHOOSE x \in S : Cardinality({y \in S : y < x}) = i - 1]

\* Object.entries(levelHashes).filter(level >= from).sort().map(`L${level}:${hash}`)
LevelParts(lh, from) ==
  LET lv == SortedLevels({l \in DOMAIN lh : l >= from})
  IN [i \in 1..Len(lv) |-> Part(lv[i], lh[lv[i]])]

\* sum of the char codes of the decimal text of n
RECURSIVE DigitChars(_)
DigitChars(n) ==
  IF n < 0 THEN 45 + DigitChars(0 - n)
  ELSE IF n < 10 THEN 48 + n
  ELSE DigitChars(n \div 10) + 48 + (n % 10)

\* sum of the char codes of "L{level}:{hash}"
PartChars(p) == 76 + DigitChars(p.level) + 58 + DigitChars(p.lo)

RECURSIVE PartsChars(_)
PartsChars(parts) ==
  IF Len(parts) = 0 THEN 0 ELSE PartChars(Head(parts)) + PartsChars(Tail(parts))

\* Array.from(structureSignature).reduce((acc, char) => acc + char.charCodeAt(0), 0)
CharSum(sig) ==
  IF Len(sig) = 0 THEN 0 ELSE PartsChars(sig) + 45 * (Len(sig) - 1)

RECURSIVE BitOr(_, _)
BitOr(a, b) ==
  IF a = 0 THEN b
  ELSE IF b = 0 THEN a
  ELSE (IF a % 2 = 1 \/ b % 2 = 1 THEN 1 ELSE 0) + 2 * BitOr(a \div 2, b \div 2)

\* id.split("-").length; a negative hash prints a "-" of its own
calculateIdLevels(id) ==
  Len(id) + Cardinality({i \in 1..Len(id) : id[i].lo < 0})

\* id.split("-").slice(1).join("-"): the text after the first "-"
SliceSignature(id) == Tail(id)

\* ------------------------------------------------------- configuration
\* A config argument is "undefined" (not passed), or an object whose
\* newIdOnCollision field is "true", "false" or "absent".
ConfigObjects == {"true", "false", "absent"}
ConfigArgs == ConfigObjects \cup {"undefined"}

\* the configurations the callers of the model use
CallConfigs == {"undefined", "true", "false"}
GlobalConfigs == {"true", "false"}

\* config || globalConfig
EffectiveConfig(st, config) == IF config = "undefined" THEN st.globalConfig ELSE config

\* effectiveConfig?.newIdOnCollision, as a condition
NewIdOnCollision(st, config) == EffectiveConfig(st, config) = "true"

\* Map.get(key) ?? 0
CounterOf(counter, sig) == IF sig \in DOMAIN counter THEN counter[sig] ELSE 0

\* the entry is left in place
Without_keepsEntry(f, k) == f

\* WeakMap.delete(key)
Without(f, k) == [x \in DOMAIN f \ {k} |-> f[x]]

\* typeof obj !== "object", without the test for null
IsPrimitiveRoot_nullIsObject(obj) == TypeOf(obj) # "object"

\* typeof obj !== "object" || obj === null
IsPrimitiveRoot(obj) == TypeOf(obj) # "object" \/ obj.t = "null"

NewTraversal(st) ==
  [km |-> st.GLOBAL_KEY_MAP, nb |-> st.nextBit, lh |-> <<>>, om |-> <<>>,
   ex |-> <<>>]

\* if (effectiveConfig?.newIdOnCollision)
\*   STRUCTURE_HASH_COUNTER.set(structureSignature, currentCount + 1)
\* the counter is written back without the + 1
CounterAfter_noIncrement(counter, sig, currentCount, collision) ==
  IF collision THEN (sig :> currentCount) @@ counter ELSE counter

\* the counter advances whatever the mode
CounterAfter_anyMode(counter, sig, currentCount, collision) ==
  (sig :> currentCount + 1) @@ counter

\* the counter wraps instead of growing
CounterAfter_wraps(counter, sig, currentCount, collision) ==
  IF collision THEN (sig :> (currentCount + 1) % 2) @@ counter ELSE counter

CounterAfter(counter, sig, currentCount, collision) ==
  IF collision THEN (sig :> currentCount + 1) @@ counter ELSE counter

\* ------------------------------------- generateStructureId (part_002)
\* OBJECT_ID_CACHE.set(obj, structureSignature): the ID is cached without L0
generateWithSignature_cachesSignature(st, obj, collision, ts, structureSignature) ==
  LET currentCount == CounterOf(st.STRUCTURE_HASH_COUNTER, structureSignature)
      l0Hash == IF collision
                THEN [level |-> 0, hi |-> 0, lo |-> currentCount]
                ELSE [level |-> 0, hi |-> CharSum(structureSignature),
                      lo |-> BitOr(currentCount, st.RESET_SEED)]
      finalId == <<l0Hash>> \o structureSignature
  IN [st |-> [st EXCEPT
                !.GLOBAL_KEY_MAP = ts.km,
                !.nextBit = ts.nb,
                !.OBJECT_SIGNATURE_CACHE = (obj.v :> structureSignature) @@ @,
                !.STRUCTURE_HASH_COUNTER =
                   CounterAfter(@, structureSignature, currentCount, collision),
                !.OBJECT_ID_CACHE =
                   IF ~collision THEN (obj.v :> structureSignature) @@ @ ELSE @,
                !.STRUCTURE_INFO_CACHE = Without(@, obj.v)],
      ret |-> finalId]

\* the part of the function after structureSignature is built
generateWithSignature(st, obj, collision, ts, structureSignature) ==
  LET currentCount == CounterOf(st.STRUCTURE_HASH_COUNTER, structureSignature)
      l0Hash == IF collision
                THEN [level |-> 0, hi |-> 0, lo |-> currentCount]
                ELSE [level |-> 0, hi |-> CharSum(structureSignature),
                      lo |-> BitOr(currentCount, st.RESET_SEED)]
      finalId == <<l0Hash>> \o structureSignature
  IN [st |-> [st EXCEPT
                !.GLOBAL_KEY_MAP = ts.km,
                !.nextBit = ts.nb,
                !.OBJECT_SIGNATURE_CACHE = (obj.v :> structureSignature) @@ @,
                !.STRUCTURE_HASH_COUNTER =
                   CounterAfter(@, structureSignature, currentCount, collision),
                !.OBJECT_ID_CACHE =
                   IF ~collision THEN (obj.v :> finalId) @@ @ ELSE @,
                !.STRUCTURE_INFO_CACHE = Without(@, obj.v)],
      ret |-> finalId]

\* the part of the function after processStructure(obj)
generateAfterTraversal(st, obj, collision, ts) ==
  generateWithSignature(st, obj, collision, ts, LevelParts(ts.lh, 1))

\* if (OBJECT_ID_CACHE.has(obj)): the cache is read whatever the mode
generateStructureId_cacheAnyMode(st, heap, obj, config) ==
  IF IsPrimitiveRoot(obj)
  THEN [st |-> st,
        ret |-> << Part(0, TypeBit(TypeOf(obj))), Part(1, TypeBit(TypeOf(obj))) >>]
  ELSE IF obj.v \in DOMAIN st.OBJECT_ID_CACHE
  THEN [st |-> st, ret |-> st.OBJECT_ID_CACHE[obj.v]]
  ELSE generateAfterTraversal(st, obj, NewIdOnCollision(st, config),
                              processStructure(NewTraversal(st), heap, obj, 0, ""))

generateStructureId(st, heap, obj, config) ==
  IF IsPrimitiveRoot(obj)
  THEN [st |-> st,
        ret |-> << Part(0, TypeBit(TypeOf(obj))), Part(1, TypeBit(TypeOf(obj))) >>]
  ELSE IF ~NewIdOnCollision(st, config) /\ obj.v \in DOMAIN st.OBJECT_ID_CACHE
  THEN [st |-> st, ret |-> st.OBJECT_ID_CACHE[obj.v]]
  ELSE generateAfterTraversal(st, obj, NewIdOnCollision(st, config),
                              processStructure(NewTraversal(st), heap, obj, 0, ""))

\* ------------------------------------- generateStructureId (index.ts)
generateWithSignatureIdx(st, obj, collision, ts, structureSignature) ==
  LET collisionCount ==
        IF structureSignature \in DOMAIN st.STRUCTURE_HASH_COUNTER
        THEN st.STRUCTURE_HASH_COUNTER[structureSignature] + 1
        ELSE 0
      finalId == IF collision
                 THEN LevelParts((0 :> collisionCount) @@ ts.lh, 0)
                 ELSE LevelParts(ts.lh, 0)
  IN [st |-> [st EXCEPT
                !.GLOBAL_KEY_MAP = ts.km,
                !.nextBit = ts.nb,
                !.OBJECT_SIGNATURE_CACHE = (obj.v :> structureSignature) @@ @,
                !.STRUCTURE_HASH_COUNTER =
                   IF collision
                   THEN (structureSignature :> collisionCount) @@ @
                   ELSE @,
                !.OBJECT_ID_CACHE =
                   IF ~collision THEN (obj.v :> finalId) @@ @ ELSE @,
                !.STRUCTURE_INFO_CACHE = Without(@, obj.v)],
      ret |-> finalId]

generateAfterTraversalIdx(st, obj, collision, ts) ==
  generateWithSignatureIdx(st, obj, collision, ts, LevelParts(ts.lh, 1))

generateStructureIdIdx(st, heap, obj, config) ==
  IF IsPrimitiveRoot(obj)
  THEN [st |-> st, ret |-> << Part(0, 0), Part(1, TypeBit(TypeOf(obj))) >>]
  ELSE IF ~NewIdOnCollision(st, config) /\ obj.v \in DOMAIN st.OBJECT_ID_CACHE
  THEN [st |-> st, ret |-> st.OBJECT_ID_CACHE[obj.v]]
  ELSE generateAfterTraversalIdx(st, obj, NewIdOnCollision(st, config),
                                 processStructure(NewTraversal(st), heap, obj, 0, ""))

\* ---------------------------------------- getStructureInfo (part_002)
\* Map.get(key) || 0
CounterOrZero(counter, sig) == IF sig \in DOMAIN counter THEN counter[sig] ELSE 0

Info(id, collisionCount) ==
  [id |-> id, levels |-> calculateIdLevels(id), collisionCount |-> collisionCount]

\* the result is returned without being stored
CacheInfo_notStored(st, obj, result) == [st |-> st, ret |-> result]

\* STRUCTURE_INFO_CACHE.set(obj, result); return result
CacheInfo(st, obj, result) ==
  [st |-> [st EXCEPT !.STRUCTURE_INFO_CACHE = (obj.v :> result) @@ @],
   ret |-> result]

InfoOfPrimitive(g) == [st |-> g.st, ret |-> Info(g.ret, 0)]

\* the part of the function after structureSignature is known
infoWithSignature(st, obj, collision, structureSignature) ==
  CacheInfo(st, obj,
    Info(IF collision
         THEN JoinSignature(
                Part(0, CounterOrZero(st.STRUCTURE_HASH_COUNTER, structureSignature)),
                structureSignature)
         ELSE IF obj.v \in DOMAIN st.OBJECT_ID_CACHE
              THEN st.OBJECT_ID_CACHE[obj.v]
              ELSE <<UndefinedPart>>,
         CounterOrZero(st.STRUCTURE_HASH_COUNTER, structureSignature)))

\* the signature taken from a generateStructureId call made for it
infoAfterGenerate(obj, collision, g) ==
  infoWithSignature(g.st, obj, collision, SliceSignature(g.ret))

getStructureInfo(st, heap, obj, config) ==
  IF IsPrimitiveRoot(obj)
  THEN InfoOfPrimitive(generateStructureId(st, heap, obj, "false"))
  ELSE IF obj.v \in DOMAIN st.STRUCTURE_INFO_CACHE
  THEN [st |-> st, ret |-> st.STRUCTURE_INFO_CACHE[obj.v]]
  ELSE IF obj.v \in DOMAIN st.OBJECT_SIGNATURE_CACHE
  THEN infoWithSignature(st, obj, NewIdOnCollision(st, config),
                         st.OBJECT_SIGNATURE_CACHE[obj.v])
  ELSE infoAfterGenerate(obj, NewIdOnCollision(st, config),
                         generateStructureId(st, heap, obj, "false"))

\* ---------------------------------------- getStructureInfo (index.ts)
\* id = generateStructureId(obj, { newIdOnCollision: false }), then cache the result
infoWithGeneratedIdIdx(obj, collisionCount, g) ==
  CacheInfo(g.st, obj, Info(g.ret, collisionCount))

infoWithSignatureIdx(st, heap, obj, collision, structureSignature) ==
  IF collision
  THEN CacheInfo(st, obj,
         Info(JoinSignature(
                Part(0, CounterOrZero(st.STRUCTURE_HASH_COUNTER, structureSignature)),
                structureSignature),
              CounterOrZero(st.STRUCTURE_HASH_COUNTER, structureSignature)))
  ELSE IF obj.v \in DOMAIN st.OBJECT_ID_CACHE
  THEN CacheInfo(st, obj,
         Info(st.OBJECT_ID_CACHE[obj.v],
              CounterOrZero(st.STRUCTURE_HASH_COUNTER, structureSignature)))
  ELSE infoWithGeneratedIdIdx(obj,
         CounterOrZero(st.STRUCTURE_HASH_COUNTER, structureSignature),
         generateStructureIdIdx(st, heap, obj, "false"))

infoAfterGenerateIdx(heap, obj, collision, g) ==
  infoWithSignatureIdx(g.st, heap, obj, collision, SliceSignature(g.ret))

getStructureInfoIdx(st, heap, obj, config) ==
  IF IsPrimitiveRoot(obj)
  THEN InfoOfPrimitive(generateStructureIdIdx(st, heap, obj, "false"))
  ELSE IF obj.v \in DOMAIN st.STRUCTURE_INFO_CACHE
  THEN [st |-> st, ret |-> st.STRUCTURE_INFO_CACHE[obj.v]]
  ELSE IF obj.v \in DOMAIN st.OBJECT_SIGNATURE_CACHE
  THEN infoWithSignatureIdx(st, heap, obj, NewIdOnCollision(st, config),
                            st.OBJECT_SIGNATURE_CACHE[obj.v])
  ELSE infoAfterGenerateIdx(heap, obj, NewIdOnCollision(st, config),
                            generateStructureIdIdx(st, heap, obj, "false"))

\* ------------------------------------------------------- getCompactInfo
\* compact(str) = hash(str), the murmur hash of the text as a short string:
\* kept as the text it was computed from under a hash mark (level -3), so
\* that the hash of a text differs from the text and from the hash of another
compact(str) == << [level |-> -3, hi |-> 0, lo |-> 0] >> \o str

\* info is what getStructureInfo(obj, config) did and returned; the object it
\* returned is the one STRUCTURE_INFO_CACHE holds, when it holds one for obj:
\* info.id = compact(info.id); return info
getCompactInfo(obj, info) ==
  [st |-> IF ~IsPrimitiveRoot(obj) /\ obj.v \in DOMAIN info.st.STRUCTURE_INFO_CACHE
          THEN [info.st EXCEPT !.STRUCTURE_INFO_CACHE[obj.v].id = compact(@)]
          ELSE info.st,
   ret |-> [info.ret EXCEPT !.id = compact(@)]]

\* ------------------------- getStructureSignature, registerStructure(s)
\* a root that is no object has the text "type:<typeof obj>" (level -3);
\* generateStructureId(obj, { newIdOnCollision: false }) stores the signature
\* it computes; OBJECT_SIGNATURE_CACHE.set(obj, signature) stores the slice
getStructureSignature(st, heap, obj) ==
  IF IsPrimitiveRoot(obj)
  THEN [st |-> st,
        ret |-> << [level |-> -3, hi |-> 0, lo |-> TypeBit(TypeOf(obj))] >>]
  ELSE IF obj.v \in DOMAIN st.OBJECT_SIGNATURE_CACHE
  THEN [st |-> st, ret |-> st.OBJECT_SIGNATURE_CACHE[obj.v]]
  ELSE [st |-> [generateStructureId(st, heap, obj, "false").st EXCEPT
                  !.OBJECT_SIGNATURE_CACHE =
                     (obj.v :> SliceSignature(
                                 generateStructureId(st, heap, obj, "false").ret)) @@ @],
        ret |-> SliceSignature(generateStructureId(st, heap, obj, "false").ret)]

\* STRUCTURE_HASH_COUNTER.set(signature, collisionCount + 1)
registerStructure_plusOne(st, heap, obj, collisionCount) ==
  [getStructureSignature(st, heap, obj).st EXCEPT
     !.STRUCTURE_HASH_COUNTER =
        (getStructureSignature(st, heap, obj).ret :> collisionCount + 1) @@ @]

\* STRUCTURE_HASH_COUNTER.set(signature, collisionCount)
registerStructure(st, heap, obj, collisionCount) ==
  [getStructureSignature(st, heap, obj).st EXCEPT
     !.STRUCTURE_HASH_COUNTER =
        (getStructureSignature(st, heap, obj).ret :> collisionCount) @@ @]

\* for (const { signature, count } of signatures)
\*   STRUCTURE_HASH_COUNTER.set(signature, count)
RECURSIVE registerStructureSignatures(_, _, _)
registerStructureSignatures(st, signatures, n) ==
  IF n = 0 THEN st
  ELSE [registerStructureSignatures(st, signatures, n - 1) EXCEPT
          !.STRUCTURE_HASH_COUNTER = (signatures[n][1] :> signatures[n][2]) @@ @]

\* ------------------------------------------------ setStructureIdConfig
\* globalConfig = { ...config }
setStructureIdConfig(st, config) == [st EXCEPT !.globalConfig = config]

\* return globalConfig: the caller holds the module's own object
getStructureIdConfig_alias(st) == [config |-> st.globalConfig, aliased |-> TRUE]

\* return { ...globalConfig }: a new object with globalConfig's fields
getStructureIdConfig(st) == [config |-> st.globalConfig, aliased |-> FALSE]

\* ----------------------------------------------------------- resetState
resetState(st, seed) ==
  [st EXCEPT !.GLOBAL_KEY_MAP = <<>>,
             !.STRUCTURE_HASH_COUNTER = <<>>,
             !.OBJECT_ID_CACHE = <<>>,
             !.OBJECT_SIGNATURE_CACHE = <<>>,
             !.STRUCTURE_INFO_CACHE = <<>>,
             !.RESET_SEED = seed,
             !.nextBit = 512]

resetStateIdx(st) ==
  [st EXCEPT !.GLOBAL_KEY_MAP = <<>>,
             !.STRUCTURE_HASH_COUNTER = <<>>,
             !.OBJECT_ID_CACHE = <<>>,
             !.OBJECT_SIGNATURE_CACHE = <<>>,
             !.STRUCTURE_INFO_CACHE = <<>>,
             !.nextBit = 512]

\* ------------------------------------- exportStructureState / import
\* the entries of a Map in insertion order: keys enter the registry in the
\* order their bits are allocated
MinBitEntry(km) ==
  LET k == CHOOSE x \in DOMAIN km : \A y \in DOMAIN km : km[x] <= km[y]
  IN <<k, km[k]>>

RECURSIVE EntriesByBit(_)
EntriesByBit(km) ==
  IF DOMAIN km = {} THEN <<>>
  ELSE <<MinBitEntry(km)>> \o EntriesByBit(Without(km, MinBitEntry(km)[1]))

\* value.toString()
BitString(bit) == ToString(bit)

exportStructureState(st) ==
  [keyMap |-> [i \in 1..Len(EntriesByBit(st.GLOBAL_KEY_MAP)) |->
                 <<EntriesByBit(st.GLOBAL_KEY_MAP)[i][1],
                   BitString(EntriesByBit(st.GLOBAL_KEY_MAP)[i][2])>>],
   collisionCounters |-> st.STRUCTURE_HASH_COUNTER]

\* the integers whose decimal text BigInt() is asked to parse
ParsableBits == {2 ^ k : k \in 0..30} \cup {3, 768}

\* BigInt(valueStr): throws a SyntaxError on a text that is not an integer
BigIntOf(str) ==
  IF \E n \in ParsableBits : ToString(n) = str
  THEN [threw |-> FALSE, v |-> CHOOSE n \in ParsableBits : ToString(n) = str]
  ELSE [threw |-> TRUE, v |-> 0]

\* for (const [key, valueStr] of Object.entries(state.keyMap))
\*   GLOBAL_KEY_MAP.set(key, BigInt(valueStr))
RECURSIVE restoreKeyMap(_, _)
restoreKeyMap(km, entries) ==
  IF Len(entries) = 0 THEN [km |-> km, threw |-> FALSE]
  ELSE IF BigIntOf(Head(entries)[2]).threw THEN [km |-> km, threw |-> TRUE]
  ELSE restoreKeyMap((Head(entries)[1] :> BigIntOf(Head(entries)[2]).v) @@ km,
                     Tail(entries))

\* maxBit stays 512n whatever was imported
MaxBitOf_floor(km) == 512

\* let maxBit = 512n; for (...) if (bit > maxBit) maxBit = bit
MaxBitOf(km) ==
  IF \E k \in DOMAIN km : km[k] > 512
  THEN CHOOSE b \in {km[k] : k \in DOMAIN km} : \A k \in DOMAIN km : km[k] <= b
  ELSE 512

\* the function after resetState(): s0 is the cleared state, restored the
\* outcome of the key map loop
importAfterReset(s0, state, restored) ==
  IF restored.threw
  THEN [st |-> [s0 EXCEPT !.GLOBAL_KEY_MAP = restored.km], threw |-> TRUE]
  ELSE [st |-> [s0 EXCEPT !.GLOBAL_KEY_MAP = restored.km,
                          !.STRUCTURE_HASH_COUNTER = state.collisionCounters,
                          !.nextBit = MaxBitOf(restored.km) * 2],
        threw |-> FALSE]

importStructureState(st, state, seed) ==
  importAfterReset(resetState(st, seed), state, restoreKeyMap(<<>>, state.keyMap))

\* ------------------------------------------------------------ shapes
\* The shape of a value: own-key set, type and length at every depth,
\* independent of property order and of leaf values.
RECURSIVE ShapeOf(_, _, _)
ShapeOf(h, value, fuel) ==
  IF value.t # "ref"
  THEN [tag |-> value.t, fields |-> {}, items |-> <<>>]
  ELSE IF fuel = 0
  THEN [tag |-> "...", fields |-> {}, items |-> <<>>]
  ELSE LET node == h[value.v]
       IN IF node.kind = "object"
          THEN [tag |-> "object",
                fields |-> { <<node.props[i][1],
                               ShapeOf(h, node.props[i][2], fuel - 1)>> :
                             i \in 1..Len(node.props) },
                items |-> <<>>]
          ELSE [tag |-> "array",
                fields |-> {},
                items |-> [i \in 1..Len(node.elems) |->
                             ShapeOf(h, node.elems[i], fuel - 1)]]

ShapeDepth == 4

\* The same objects holding other leaf values of the same types.
AltValue(value) ==
  IF value.t = "number" THEN Num(value.v + 100)
  ELSE IF value.t = "string" THEN Str(value.v + 7)
  ELSE IF value.t = "boolean" THEN Bool(1 - value.v)
  ELSE value

AltHeap(h) ==
  [o \in DOMAIN h |->
     [kind |-> h[o].kind,
      props |-> [i \in 1..Len(h[o].props) |->
                   <<h[o].props[i][1], AltValue(h[o].props[i][2])>>],
      elems |-> [i \in 1..Len(h[o].elems) |-> AltValue(h[o].elems[i])]]]

\* ------------------------------------------------------ state machine
VARIABLES
  GLOBAL_KEY_MAP,           \* key -> bit
  nextBit,                  \* allocator watermark
  STRUCTURE_HASH_COUNTER,   \* structure signature -> collision count
  OBJECT_ID_CACHE,          \* object -> final ID
  OBJECT_SIGNATURE_CACHE,   \* object -> structure signature
  STRUCTURE_INFO_CACHE,     \* object -> info result
  RESET_SEED,
  globalConfig,
  impl,                     \* which implementation runs
  inputs,                   \* the objects the caller passes to the API
  last,                     \* the last API call and what it returned
  defaultIds,               \* <<object, ID>> of default-mode generate calls of the epoch
  collisionIds,             \* IDs returned by collision-mode generate calls of the epoch
  streak,                   \* <<object, ID>> of the current run of collision-mode calls
  steps,
  prevIds,                  \* <<object, ID>> of default-mode generate calls of the epoch before
  afterReset,               \* <<object, mode, ID>> of generate calls made right after a resetState
  mutated,                  \* the objects the caller changed after building them
  infoCounts,               \* object -> collisionCount of its last collision-mode info, no generate of it since
  imported,                 \* the key map the last importStructureState of the epoch restored
  twin,                     \* engine of a second run fed other leaf values
  twinLast                  \* what the second run's last call returned

engVars == <<GLOBAL_KEY_MAP, nextBit, STRUCTURE_HASH_COUNTER, OBJECT_ID_CACHE,
             OBJECT_SIGNATURE_CACHE, STRUCTURE_INFO_CACHE, RESET_SEED, globalConfig>>
twinVars == <<twin, twinLast>>
vars == <<GLOBAL_KEY_MAP, nextBit, STRUCTURE_HASH_COUNTER, OBJECT_ID_CACHE,
          OBJECT_SIGNATURE_CACHE, STRUCTURE_INFO_CACHE, RESET_SEED, globalConfig,
          impl, inputs, last, defaultIds, collisionIds, streak, steps,
          prevIds, afterReset, mutated, infoCounts, imported, twin, twinLast>>

Eng ==
  [GLOBAL_KEY_MAP |-> GLOBAL_KEY_MAP,
   nextBit |-> nextBit,
   STRUCTURE_HASH_COUNTER |-> STRUCTURE_HASH_COUNTER,
   OBJECT_ID_CACHE |-> OBJECT_ID_CACHE,
   OBJECT_SIGNATURE_CACHE |-> OBJECT_SIGNATURE_CACHE,
   STRUCTURE_INFO_CACHE |-> STRUCTURE_INFO_CACHE,
   RESET_SEED |-> RESET_SEED,
   globalConfig |-> globalConfig]

SetEng(st) ==
  /\ GLOBAL_KEY_MAP' = st.GLOBAL_KEY_MAP
  /\ nextBit' = st.nextBit
  /\ STRUCTURE_HASH_COUNTER' = st.STRUCTURE_HASH_COUNTER
  /\ OBJECT_ID_CACHE' = st.OBJECT_ID_CACHE
  /\ OBJECT_SIGNATURE_CACHE' = st.OBJECT_SIGNATURE_CACHE
  /\ STRUCTURE_INFO_CACHE' = st.STRUCTURE_INFO_CACHE
  /\ RESET_SEED' = st.RESET_SEED
  /\ globalConfig' = st.globalConfig

\* module state after load
InitialEngine ==
  [GLOBAL_KEY_MAP |-> <<>>,
   nextBit |-> 512,
   STRUCTURE_HASH_COUNTER |-> <<>>,
   OBJECT_ID_CACHE |-> <<>>,
   OBJECT_SIGNATURE_CACHE |-> <<>>,
   STRUCTURE_INFO_CACHE |-> <<>>,
   RESET_SEED |-> 0,
   globalConfig |-> "false"]

Impls == {"part_002", "index"}

\* the sets of objects one caller works with
InputSets == { {1, 2}, {1, 3}, {1, 4}, {5, 6}, {5, 7}, {8, 9}, {10, 11}, {10, 14} }

\* inputs that hold reference cycles: an object and its isomorphic twin
CyclicInputSets == { {16, 17}, {18, 20}, {22, 25}, {28, 16} }

\* chains whose deepest node lies at depth 32 and at depth 31
DeepInputSets == { {ChainRoot}, {ChainRoot + 1} }

\* obj.c = 0 when obj has no property c, delete obj.c when it has one
Changed(node) ==
  IF node.kind # "object" THEN node
  ELSE IF \E i \in 1..Len(node.props) : node.props[i][1] = "c"
  THEN [node EXCEPT !.props = SelectSeq(@, LAMBDA pr : pr[1] # "c")]
  ELSE [node EXCEPT !.props = Append(@, <<"c", Num(0)>>)]

\* values Math.floor(Math.random() * 10000) can take
Seeds == {1, 6}

\* 42, 0, "string", "", true, false, null, undefined passed as the root
PrimitiveRoots ==
  { Num(42), Num(0), Str(1), Str(0), Bool(1), Bool(0),
    [t |-> "null", v |-> 0], [t |-> "undefined", v |-> 0] }

Shape(o) == ShapeOf(Heap, Ref(o), ShapeDepth)
SameShape(p, q) == Shape(p) = Shape(q)

NoCall == [op |-> "none", obj |-> 0, value |-> Ref(0), config |-> "undefined",
           collision |-> FALSE, id |-> <<>>, levels |-> 0, collisionCount |-> 0,
           threw |-> FALSE]

InitWith(I, sets) ==
  /\ GLOBAL_KEY_MAP = InitialEngine.GLOBAL_KEY_MAP
  /\ nextBit = InitialEngine.nextBit
  /\ STRUCTURE_HASH_COUNTER = InitialEngine.STRUCTURE_HASH_COUNTER
  /\ OBJECT_ID_CACHE = InitialEngine.OBJECT_ID_CACHE
  /\ OBJECT_SIGNATURE_CACHE = InitialEngine.OBJECT_SIGNATURE_CACHE
  /\ STRUCTURE_INFO_CACHE = InitialEngine.STRUCTURE_INFO_CACHE
  /\ RESET_SEED = InitialEngine.RESET_SEED
  /\ globalConfig = InitialEngine.globalConfig
  /\ impl \in I
  /\ inputs \in sets
  /\ last = NoCall
  /\ defaultIds = {}
  /\ collisionIds = {}
  /\ streak = <<>>
  /\ steps = 0
  /\ prevIds = {}
  /\ afterReset = {}
  /\ mutated = {}
  /\ infoCounts = <<>>
  /\ imported = <<>>
  /\ twin = InitialEngine
  /\ twinLast = NoCall

Init == InitWith({"part_002"}, InputSets)
InitIndex == InitWith({"index"}, InputSets)
InitBoth == InitWith(Impls, InputSets)
InitCyclic == InitWith(Impls, CyclicInputSets)
InitDeep == InitWith(Impls, DeepInputSets)

\* the heap as the caller's changes left it
CurrentHeap ==
  IF mutated = {} THEN Heap
  ELSE [o \in DOMAIN Heap |-> IF o \in mutated THEN Changed(Heap[o]) ELSE Heap[o]]

DoGenerate(st, h, o, config) ==
  IF impl = "part_002" THEN generateStructureId(st, h, Ref(o), config)
  ELSE generateStructureIdIdx(st, h, Ref(o), config)

\* generateStructureId called with any value as the root
DoGenerateValue(st, value, config) ==
  IF impl = "part_002" THEN generateStructureId(st, CurrentHeap, value, config)
  ELSE generateStructureIdIdx(st, CurrentHeap, value, config)

DoInfo(st, h, o, config) ==
  IF impl = "part_002" THEN getStructureInfo(st, h, Ref(o), config)
  ELSE getStructureInfoIdx(st, h, Ref(o), config)

\* the two Maps are cleared, the three WeakMaps are not replaced
DoReset_keepsCaches(st, seed) ==
  [st EXCEPT !.GLOBAL_KEY_MAP = <<>>,
             !.STRUCTURE_HASH_COUNTER = <<>>,
             !.nextBit = 512]

DoReset(st, seed) ==
  IF impl = "part_002" THEN resetState(st, seed) ELSE resetStateIdx(st)

\* the signature a traversal of o computes in state st
SignatureIn(st, o) ==
  LevelParts(processStructure(NewTraversal(st), CurrentHeap, Ref(o), 0, "").lh, 1)

GenerateCall(o, config, r) ==
  [op |-> "generate", obj |-> o, value |-> Ref(o), config |-> config,
   collision |-> NewIdOnCollision(Eng, config), id |-> r.ret,
   levels |-> 0, collisionCount |-> 0, threw |-> FALSE]

InfoCall(o, config, r) ==
  [op |-> "info", obj |-> o, value |-> Ref(o), config |-> config,
   collision |-> NewIdOnCollision(Eng, config), id |-> r.ret.id,
   levels |-> r.ret.levels, collisionCount |-> r.ret.collisionCount,
   threw |-> FALSE]

\* a generateStructureId(o, config) call that returns r; sig is o's signature
GenerateReturns(o, config, r, collision, sig) ==
  /\ steps < MaxSteps
  /\ collision => CounterOf(STRUCTURE_HASH_COUNTER, sig) < MaxCount
  /\ SetEng(r.st)
  /\ last' = GenerateCall(o, config, r)
  /\ defaultIds' = IF collision THEN defaultIds ELSE defaultIds \cup {<<o, r.ret>>}
  /\ collisionIds' = IF collision THEN collisionIds \cup {r.ret} ELSE collisionIds
  /\ streak' = IF ~collision THEN <<>>
               ELSE IF streak # <<>> /\ SameShape(streak[1][1], o)
                    THEN Append(streak, <<o, r.ret>>)
               ELSE IF sig \notin DOMAIN STRUCTURE_HASH_COUNTER
                    THEN << <<o, r.ret>> >>
               ELSE <<>>
  /\ afterReset' = IF last.op = "reset"
                   THEN afterReset \cup {<<o, collision, r.ret>>}
                   ELSE afterReset
  /\ infoCounts' = Without(infoCounts, o)
  /\ steps' = steps + 1
  /\ UNCHANGED <<impl, inputs, prevIds, mutated, imported>>

GenerateCore(o, config) ==
  GenerateReturns(o, config, DoGenerate(Eng, CurrentHeap, o, config),
                  NewIdOnCollision(Eng, config), SignatureIn(Eng, o))

\* a getStructureInfo(o, config) call that returns r
InfoReturns(o, config, r) ==
  /\ steps < MaxSteps
  /\ SetEng(r.st)
  /\ last' = InfoCall(o, config, r)
  /\ streak' = <<>>
  /\ infoCounts' = IF NewIdOnCollision(Eng, config)
                   THEN (o :> r.ret.collisionCount) @@ infoCounts
                   ELSE infoCounts
  /\ steps' = steps + 1
  /\ UNCHANGED <<impl, inputs, defaultIds, collisionIds, prevIds, afterReset, mutated,
                 imported>>

InfoCore(o, config) == InfoReturns(o, config, DoInfo(Eng, CurrentHeap, o, config))

ConfigCore(config) ==
  /\ steps < MaxSteps
  /\ config # globalConfig
  /\ SetEng(setStructureIdConfig(Eng, config))
  /\ last' = [NoCall EXCEPT !.op = "config", !.config = config]
  /\ streak' = <<>>
  /\ steps' = steps + 1
  /\ UNCHANGED <<impl, inputs, defaultIds, collisionIds, prevIds, afterReset, mutated,
                 infoCounts, imported>>

\* resetState() starts a new epoch
ResetCore(seed) ==
  /\ steps < MaxSteps
  /\ SetEng(DoReset(Eng, seed))
  /\ last' = [NoCall EXCEPT !.op = "reset"]
  /\ defaultIds' = {}
  /\ collisionIds' = {}
  /\ streak' = <<>>
  /\ prevIds' = defaultIds
  /\ infoCounts' = <<>>
  /\ imported' = <<>>
  /\ steps' = steps + 1
  /\ UNCHANGED <<impl, inputs, afterReset, mutated>>

\* the caller adds a property to, or deletes one from, an object it built
MutateCore(o) ==
  /\ steps < MaxSteps
  /\ o \notin mutated
  /\ Heap[o].kind = "object"
  /\ mutated' = mutated \cup {o}
  /\ last' = [NoCall EXCEPT !.op = "mutate", !.obj = o]
  /\ streak' = <<>>
  /\ steps' = steps + 1
  /\ UNCHANGED <<engVars, impl, inputs, defaultIds, collisionIds, prevIds, afterReset,
                 infoCounts, imported>>

\* a state as a caller hands it to importStructureState: what
\* exportStructureState returned, as is or with one bit string damaged
Damaged(state, i) == [state EXCEPT !.keyMap[i][2] = "12x"]

StatesFrom(exported) ==
  {exported} \cup {Damaged(exported, i) : i \in 1..Len(exported.keyMap)}

\* an importStructureState(state) call with outcome r; a caller that
\* catches the error goes on using the module
ImportReturns(r) ==
  /\ steps < MaxSteps
  /\ SetEng(r.st)
  /\ last' = [NoCall EXCEPT !.op = "import", !.threw = r.threw]
  /\ defaultIds' = {}
  /\ collisionIds' = {}
  /\ streak' = <<>>
  /\ prevIds' = defaultIds
  /\ infoCounts' = <<>>
  /\ imported' = IF r.threw THEN <<>> ELSE r.st.GLOBAL_KEY_MAP
  /\ steps' = steps + 1
  /\ UNCHANGED <<impl, inputs, afterReset, mutated>>

ImportCore(state, seed) == ImportReturns(importStructureState(Eng, state, seed))

\* a generateStructureId(value, config) call on a root that is no object
GeneratePrimitiveReturns(value, config, r) ==
  /\ steps < MaxSteps
  /\ SetEng(r.st)
  /\ last' = [NoCall EXCEPT !.op = "generate", !.value = value, !.config = config,
                            !.collision = NewIdOnCollision(Eng, config),
                            !.id = r.ret]
  /\ streak' = <<>>
  /\ steps' = steps + 1
  /\ UNCHANGED <<impl, inputs, defaultIds, collisionIds, prevIds, afterReset, mutated,
                 infoCounts, imported, twinVars>>

GeneratePrimitive(value, config) ==
  GeneratePrimitiveReturns(value, config, DoGenerateValue(Eng, value, config))

\* a call that returns nothing the model records and leaves the engine in st
\* (registerStructures is a loop of registerStructure calls: a run of them)
ApiCall(op, o, count, config, st) ==
  /\ steps < MaxSteps
  /\ SetEng(st)
  /\ last' = [NoCall EXCEPT !.op = op, !.obj = o, !.value = Ref(o),
                            !.collisionCount = count, !.config = config]
  /\ streak' = <<>>
  /\ steps' = steps + 1
  /\ UNCHANGED <<impl, inputs, defaultIds, collisionIds, prevIds, afterReset, mutated,
                 infoCounts, imported, twinVars>>

\* const c = getStructureIdConfig(); c.newIdOnCollision = value
\* the record of the call keeps what it returned
GetConfig(value) ==
  ApiCall("getConfig", 0, 0, getStructureIdConfig(Eng).config,
          IF getStructureIdConfig(Eng).aliased
          THEN [Eng EXCEPT !.globalConfig = value]
          ELSE Eng)

\* getCompactInfo(o, config)
CompactInfo(o, config) ==
  /\ steps < MaxSteps
  /\ SetEng(getCompactInfo(Ref(o), DoInfo(Eng, CurrentHeap, o, config)).st)
  /\ last' = [InfoCall(o, config,
                       getCompactInfo(Ref(o), DoInfo(Eng, CurrentHeap, o, config)))
                EXCEPT !.op = "compactInfo"]
  /\ streak' = <<>>
  /\ infoCounts' = IF NewIdOnCollision(Eng, config)
                   THEN (o :> last'.collisionCount) @@ infoCounts
                   ELSE infoCounts
  /\ steps' = steps + 1
  /\ UNCHANGED <<impl, inputs, defaultIds, collisionIds, prevIds, afterReset, mutated,
                 imported, twinVars>>

GetSignature(o) ==
  ApiCall("signature", o, 0, "undefined", getStructureSignature(Eng, CurrentHeap, Ref(o)).st)

Register(o, count) ==
  ApiCall("register", o, count, "undefined", registerStructure(Eng, CurrentHeap, Ref(o), count))

\* registerStructureSignatures called with the signatures of the objects os
RegisterSignatures(os, count) ==
  ApiCall("registerSignatures", 0, count, "undefined",
          registerStructureSignatures(
            Eng, [i \in 1..Len(os) |-> <<SignatureIn(Eng, os[i]), count>>], Len(os)))

Generate(o, config) == GenerateCore(o, config) /\ UNCHANGED twinVars
GetInfo(o, config) == InfoCore(o, config) /\ UNCHANGED twinVars
SetConfig(config) == ConfigCore(config) /\ UNCHANGED twinVars
Reset(seed) == ResetCore(seed) /\ UNCHANGED twinVars
Mutate(o) == MutateCore(o) /\ UNCHANGED twinVars
Import(state, seed) == ImportCore(state, seed) /\ UNCHANGED twinVars

Next ==
  \/ \E o \in inputs, config \in CallConfigs : Generate(o, config)
  \/ \E o \in inputs, config \in CallConfigs : GetInfo(o, config)
  \/ \E config \in GlobalConfigs : SetConfig(config)
  \/ \E seed \in Seeds : Reset(seed)

Spec == Init /\ [][Next]_vars
SpecIndex == InitIndex /\ [][Next]_vars
SpecBoth == InitBoth /\ [][Next]_vars
SpecCyclic == InitCyclic /\ [][Next]_vars

NextMutate ==
  \/ Next
  \/ \E o \in inputs : Mutate(o)

SpecMutate == Init /\ [][NextMutate]_vars

NextImport ==
  \/ Next
  \/ \E state \in StatesFrom(exportStructureState(Eng)), seed \in Seeds :
       Import(state, seed)

SpecImport == Init /\ [][NextImport]_vars

\* states written by hand or by another process: bits that are no powers of
\* two, bits below 512, a gap above the largest bit, two keys on one bit
ImportableStates ==
  { [keyMap |-> << <<"a", "768">>, <<"type:object", "3">> >>,
     collisionCounters |-> <<>>],
    [keyMap |-> << <<"type:object", "512">>, <<"a", "4096">> >>,
     collisionCounters |-> <<>>],
    [keyMap |-> << <<"b", "1024">>, <<"a", "1024">> >>,
     collisionCounters |-> <<>>] }

NextImportAny ==
  \/ Next
  \/ \E state \in ImportableStates, seed \in Seeds : Import(state, seed)

SpecImportAny == InitWith({"part_002"}, { {1, 3}, {10, 11} }) /\ [][NextImportAny]_vars
SpecDeep == InitDeep /\ [][Next]_vars

NextPrimitive ==
  \/ Next
  \/ \E value \in PrimitiveRoots, config \in CallConfigs : GeneratePrimitive(value, config)

\* callers that pass primitive roots besides an object and an array
InitPrimitive == InitWith(Impls, { {1, 5}, {1, 2} })

SpecPrimitive == InitPrimitive /\ [][NextPrimitive]_vars

\* shared sub-objects, exchanged children, permuted array elements
SpecShared == InitWith(Impls, { {62, 63}, {67, 68}, {7, 73} }) /\ [][Next]_vars

\* every exported function of part_002 but the import
NextApi ==
  \/ Next
  \/ \E o \in inputs : GetSignature(o)
  \/ \E o \in inputs, config \in CallConfigs : CompactInfo(o, config)
  \/ \E o \in inputs : Generate(o, "absent")
  \/ SetConfig("absent")
  \/ \E value \in GlobalConfigs : GetConfig(value)
  \/ \E o \in inputs, count \in {0, 2} : Register(o, count)
  \/ \E o \in inputs, p \in inputs, count \in {0, 1} :
       o < p /\ RegisterSignatures(<<o, p>>, count)

SpecApi == InitWith({"part_002"}, { {1, 2}, {1, 10} }) /\ [][NextApi]_vars

\* ---------------------------------------------- two runs, other leaf values
\* Every call is made on both engines; the second one sees AltHeap(Heap).
TwinGenerateReturns(o, config, r) ==
  /\ twin' = r.st
  /\ twinLast' = [op |-> "generate", obj |-> o, value |-> Ref(o), config |-> config,
                  collision |-> NewIdOnCollision(twin, config), id |-> r.ret,
                  levels |-> 0, collisionCount |-> 0, threw |-> FALSE]

TwinGenerate(o, config) ==
  /\ GenerateCore(o, config)
  /\ TwinGenerateReturns(o, config, DoGenerate(twin, AltHeap(CurrentHeap), o, config))

TwinInfoReturns(o, config, r) ==
  /\ twin' = r.st
  /\ twinLast' = [op |-> "info", obj |-> o, value |-> Ref(o), config |-> config,
                  collision |-> NewIdOnCollision(twin, config), id |-> r.ret.id,
                  levels |-> r.ret.levels,
                  collisionCount |-> r.ret.collisionCount, threw |-> FALSE]

TwinGetInfo(o, config) ==
  /\ InfoCore(o, config)
  /\ TwinInfoReturns(o, config, DoInfo(twin, AltHeap(CurrentHeap), o, config))

TwinSetConfig(config) ==
  /\ ConfigCore(config)
  /\ twin' = setStructureIdConfig(twin, config)
  /\ twinLast' = [NoCall EXCEPT !.op = "config", !.config = config]

TwinReset(seed) ==
  /\ ResetCore(seed)
  /\ twin' = DoReset(twin, seed)
  /\ twinLast' = [NoCall EXCEPT !.op = "reset"]

NextTwin ==
  \/ \E o \in inputs, config \in CallConfigs : TwinGenerate(o, config)
  \/ \E o \in inputs, config \in CallConfigs : TwinGetInfo(o, config)
  \/ \E config \in GlobalConfigs : TwinSetConfig(config)
  \/ \E seed \in Seeds : TwinReset(seed)

SpecTwin == Init /\ [][NextTwin]_vars

\* ================================================================ claims

\* the objects of the Heap that differ only in property order and leaf values
OrderVariants == { <<1, 2>>, <<2, 1>>, <<10, 11>>, <<11, 10>> }

Untouched(o) ==
  /\ o \notin DOMAIN OBJECT_ID_CACHE
  /\ o \notin DOMAIN OBJECT_SIGNATURE_CACHE
  /\ o \notin DOMAIN STRUCTURE_INFO_CACHE

\* C1: within one epoch, any two default-mode generateStructureId calls on
\* inputs of identical shape returned the same full ID, whatever calls (either
\* mode, info, config) were made in between.
C1_SameShapeSameId ==
  \A p \in defaultIds : \A q \in defaultIds :
    SameShape(p[1], q[1]) => p[2] = q[2]

\* C2: for two fresh objects that differ only in the insertion order of their
\* properties, back-to-back default-mode calls return the same ID, and the
\* registry reached does not depend on which of the two was fingerprinted.
C2_KeyOrderIndependent ==
  \A v \in OrderVariants :
    (Untouched(v[1]) /\ Untouched(v[2])) =>
      LET r1 == generateStructureId(Eng, Heap, Ref(v[1]), "false")
          r2 == generateStructureId(r1.st, Heap, Ref(v[2]), "false")
          o2 == generateStructureId(Eng, Heap, Ref(v[2]), "false")
      IN /\ r1.ret = r2.ret
         /\ r1.st.GLOBAL_KEY_MAP = o2.st.GLOBAL_KEY_MAP
         /\ r2.st.GLOBAL_KEY_MAP = r1.st.GLOBAL_KEY_MAP

C2_Witness ==
  /\ last.op = "generate" /\ last.obj = 11 /\ ~last.collision
  /\ 10 \in DOMAIN OBJECT_ID_CACHE
  /\ OBJECT_ID_CACHE[10] = last.id
  /\ {"a", "b", "n"} \subseteq DOMAIN GLOBAL_KEY_MAP
  /\ ObjectKeys(Heap[10]) # ObjectKeys(Heap[11])

\* C3: a run whose inputs hold other primitive leaves of the same types returns
\* the same IDs and goes through the same registry, counters and caches.
C3_ValueIndependent ==
  /\ twin = Eng
  /\ twinLast = last

C3_Witness ==
  /\ last.op = "generate"
  /\ Heap[last.obj] # AltHeap(Heap)[last.obj]
  /\ last.obj \in DOMAIN twin.OBJECT_SIGNATURE_CACHE
  /\ STRUCTURE_HASH_COUNTER # <<>>
  /\ OBJECT_ID_CACHE # <<>>

\* C4: two inputs that differ in a key name, an element type or an array
\* length at any depth (root included) get different non-root segments.
C4_DifferentShapeDifferentSignature ==
  \A p \in defaultIds : \A q \in defaultIds :
    ~SameShape(p[1], q[1]) => Tail(p[2]) # Tail(q[2])

\* C5: (index.ts) two inputs with different structures never get the same
\* default-mode ID within one epoch.
C5_DifferentShapeDifferentId ==
  \A p \in defaultIds : \A q \in defaultIds :
    ~SameShape(p[1], q[1]) => p[2] # q[2]

\* C6: K consecutive collision-mode calls on inputs of one shape, the first
\* made when the signature had no counter, return L0 = 0, 1, ..., K-1 in call
\* order with identical segments for depth >= 1 (hence K distinct IDs).
C6_CollisionSequence ==
  \A i \in 1..Len(streak) :
    /\ streak[i][2][1] = Part(0, i - 1)
    /\ Tail(streak[i][2]) = Tail(streak[1][2])
    /\ \A j \in 1..Len(streak) : i # j => streak[i][2] # streak[j][2]

C6_Witness ==
  /\ Len(streak) = 3
  /\ streak[1][1] # streak[2][1]
  /\ Len(streak[1][2]) >= 2

\* C7: within one epoch no collision-mode generateStructureId call returns an
\* ID that an earlier collision-mode call of the epoch returned.
C7_CollisionIdsDistinct ==
  [][(last'.op = "generate" /\ last'.collision) => last'.id \notin collisionIds]_vars

C7_Witness ==
  /\ Cardinality(collisionIds) >= 3
  /\ last.op = "generate" /\ last.collision
  /\ defaultIds # {}

\* C8: getStructureInfo reports the current value of the collision counter of
\* its input's signature (0 without a counter) as collisionCount, and in
\* enabled mode the L0 of the returned id is that value.
C8_InfoReportsCurrentCounter ==
  last.op = "info" =>
    LET c == CounterOf(STRUCTURE_HASH_COUNTER, SignatureIn(Eng, last.obj))
    IN /\ last.collisionCount = c
       /\ last.collision => last.id[1] = Part(0, c)

\* C9: getStructureInfo and default-mode generateStructureId leave the counter
\* table unchanged; a collision-mode generateStructureId changes only the
\* entry of its input's signature.
C9_CountersFrame ==
  [][ /\ (last'.op = "info" \/ (last'.op = "generate" /\ ~last'.collision))
           => STRUCTURE_HASH_COUNTER' = STRUCTURE_HASH_COUNTER
      /\ (last'.op = "generate" /\ last'.collision)
           => \A sig \in DOMAIN STRUCTURE_HASH_COUNTER \cup DOMAIN STRUCTURE_HASH_COUNTER' :
                sig # SignatureIn(Eng, last'.obj) =>
                  /\ sig \in DOMAIN STRUCTURE_HASH_COUNTER
                  /\ sig \in DOMAIN STRUCTURE_HASH_COUNTER'
                  /\ STRUCTURE_HASH_COUNTER'[sig] = STRUCTURE_HASH_COUNTER[sig]
    ]_vars

C9_Witness ==
  /\ Cardinality(DOMAIN STRUCTURE_HASH_COUNTER) = 2
  /\ \E sig \in DOMAIN STRUCTURE_HASH_COUNTER : STRUCTURE_HASH_COUNTER[sig] >= 1
  /\ last.op = "info"

\* C10: in default mode getStructureInfo(obj).id is the string a default-mode
\* generateStructureId(obj) returns, after any prior sequence of calls.
C10_InfoIdIsGenerateId ==
  \A o \in inputs :
    LET i == DoInfo(Eng, Heap, o, "false")
        g == DoGenerate(i.st, Heap, o, "false")
    IN i.ret.id = g.ret

\* C11: (index.ts) after K >= 1 consecutive collision-mode generateStructureId
\* calls on inputs of one shape, the last on object A, a collision-mode
\* getStructureInfo(A) returns collisionCount = K-1 and the ID the K-th call
\* returned, and leaves the counter at K-1.
C11_InfoAfterCollisions ==
  [][ ( /\ streak # <<>>
        /\ last'.op = "info" /\ last'.collision
        /\ last'.obj = streak[Len(streak)][1] )
      => /\ last'.collisionCount = Len(streak) - 1
         /\ last'.id = streak[Len(streak)][2]
         /\ CounterOf(STRUCTURE_HASH_COUNTER', SignatureIn(Eng, last'.obj))
              = Len(streak) - 1
    ]_vars

\* the objects one traversal of o recurses into, in order
ExpandedBy(o) == processStructure(NewTraversal(Eng), Heap, Ref(o), 0, "").ex

\* C12: on every input, cyclic ones included, generateStructureId and
\* getStructureInfo return (the traversal is finite) a non-empty ID in either
\* mode, and one call recurses into each object or array at most once.
C12_TerminatesExpandsOnce ==
  \A o \in inputs :
    /\ \A ex \in {ExpandedBy(o)} :
         /\ Cardinality({ex[i] : i \in 1..Len(ex)}) = Len(ex)
         /\ ex[1] = o
    /\ \A config \in CallConfigs :
         /\ DoGenerate(Eng, Heap, o, config).ret # <<>>
         /\ DoInfo(Eng, Heap, o, config).ret.id # <<>>

C12_Witness ==
  /\ last.op = "generate"
  /\ last.obj = 22
  /\ Len(last.id) = 4
  /\ Len(ExpandedBy(22)) = 3
  /\ \E key \in DOMAIN GLOBAL_KEY_MAP : key = "circular:.{n}"

\* the objectMap entry a traversal of o stores for o itself
Marker(o) == getObjectSignature(Heap, o, "")

\* C13: two isomorphic cyclic graphs fingerprinted in default mode in the
\* same epoch get identical IDs, cycle-marker bit included.
C13_IsomorphicCyclesSameId ==
  \A p \in defaultIds : \A q \in defaultIds :
    ( /\ p[1] # q[1]
      /\ SameShape(p[1], q[1])
      /\ \E key \in DOMAIN GLOBAL_KEY_MAP : key = "circular:" \o Marker(p[1]) )
    => p[2] = q[2]

\* C14: a default-mode generateStructureId call made after resetState() on a
\* shape that was fingerprinted in the epoch the reset ended returns an ID
\* different from the one that shape received then.
C14_ResetChangesIds ==
  \A p \in defaultIds : \A q \in prevIds :
    SameShape(p[1], q[1]) => p[2] # q[2]

\* C15: the ID generateStructureId(v) returns as the first call after a
\* resetState() is the same after every resetState(), whatever happened
\* before the reset (calls compared in the same mode).
C15_ResetIsPredictable ==
  \A p \in afterReset : \A q \in afterReset :
    (p[1] = q[1] /\ p[2] = q[2]) => p[3] = q[3]

\* the bits an allocator starting at 512 can hand out
KeyBits == {2 ^ k : k \in 9..30}

\* C16: within one epoch, under generateStructureId and getStructureInfo
\* calls, a key keeps the bit it was assigned, no two keys hold the same bit,
\* every bit is a power of two >= 512 (so none of the type bits 1..256) and
\* below nextBit, and nextBit never decreases.
C16_RegistryInvariant ==
  [][ /\ \A key \in DOMAIN GLOBAL_KEY_MAP' :
           /\ GLOBAL_KEY_MAP'[key] \in KeyBits
           /\ GLOBAL_KEY_MAP'[key] < nextBit'
           /\ \A other \in DOMAIN GLOBAL_KEY_MAP' :
                other # key => GLOBAL_KEY_MAP'[other] # GLOBAL_KEY_MAP'[key]
           /\ \A type \in DOMAIN TYPE_BITS : TYPE_BITS[type] # GLOBAL_KEY_MAP'[key]
      /\ last'.op \in {"generate", "info"} =>
           /\ nextBit' >= nextBit
           /\ \A key \in DOMAIN GLOBAL_KEY_MAP :
                /\ key \in DOMAIN GLOBAL_KEY_MAP'
                /\ GLOBAL_KEY_MAP'[key] = GLOBAL_KEY_MAP[key]
    ]_vars

C16_Witness ==
  /\ Cardinality(DOMAIN GLOBAL_KEY_MAP) >= 5
  /\ nextBit >= 512 * 32
  /\ last.op = "info"
  /\ Cardinality(DOMAIN OBJECT_SIGNATURE_CACHE) = 2

\* C17: an importStructureState call that fails on a non-numeric bit string
\* leaves the registry, the counters, the caches, the seed and nextBit exactly
\* as they were before the call.
C17_ImportAllOrNothing ==
  [][ (last'.op = "import" /\ last'.threw) => UNCHANGED engVars ]_vars

Max(S) == CHOOSE x \in S : \A y \in S : y <= x

\* nesting depth of the deepest node below value (value itself at depth 0);
\* a reference back to an object on the way is a node, and is not followed
RECURSIVE DepthOf(_, _, _)
DepthOf(h, value, onPath) ==
  IF value.t # "ref" THEN 0
  ELSE IF value.v \in onPath THEN 0
  ELSE IF Len(h[value.v].props) + Len(h[value.v].elems) = 0 THEN 0
  ELSE 1 + Max({DepthOf(h, h[value.v].props[i][2], onPath \cup {value.v}) :
                   i \in 1..Len(h[value.v].props)}
               \cup {DepthOf(h, h[value.v].elems[i], onPath \cup {value.v}) :
                       i \in 1..Len(h[value.v].elems)})

\* C18: for an input whose deepest node lies at depth n the returned ID has
\* exactly n+1 dash-separated segments, labelled L0..Ln in ascending order,
\* and getStructureInfo reports levels = n+1, for every n.
C18_LevelsAreDepthPlusOne ==
  /\ last.op = "generate" =>
       /\ calculateIdLevels(last.id) = DepthOf(Heap, Ref(last.obj), {}) + 1
       /\ \A i \in 1..Len(last.id) : last.id[i].level = i - 1
  /\ (last.op = "info" /\ ~last.collision) =>
       last.levels = DepthOf(Heap, Ref(last.obj), {}) + 1

\* the number hi * 2^32 + lo is at least 2^d and positive
AtLeastPow2(p, d) ==
  /\ p.lo >= 0
  /\ p.hi >= 0
  /\ IF d <= 30 THEN p.hi > 0 \/ p.lo >= 2 ^ d
     ELSE IF d = 31 THEN p.hi > 0
     ELSE p.hi >= 2 ^ (d - 32)

\* C19: every segment of depth d >= 1 printed in an ID is a positive integer
\* >= 2^d (the accumulator is seeded with 2^d and only grows), for every
\* depth d, d >= 31 included: no sign, no 32-bit wraparound.
C19_SegmentsAtLeastSeed ==
  last.op = "generate" =>
    \A i \in 1..Len(last.id) :
      last.id[i].level >= 1 => AtLeastPow2(last.id[i], last.id[i].level)

\* the engine as an object that was never passed to it sees it
Unseen(st, o) ==
  [st EXCEPT !.OBJECT_ID_CACHE = Without(@, o),
             !.OBJECT_SIGNATURE_CACHE = Without(@, o),
             !.STRUCTURE_INFO_CACHE = Without(@, o)]

\* C20: a default-mode generateStructureId(A) made after a property was added
\* to or removed from A returns the ID of A's new shape, the one a fresh
\* object of that shape gets from the same call.
C20_ChangesReflected ==
  [][ (last'.op = "generate" /\ ~last'.collision /\ last'.obj \in mutated)
      => last'.id = DoGenerate(Unseen(Eng, last'.obj), CurrentHeap,
                               last'.obj, "false").ret
    ]_vars

\* what a generateStructureId call may not change when it is a repetition
SameRegistryAndCounters(s1, s2) ==
  /\ s1.GLOBAL_KEY_MAP = s2.GLOBAL_KEY_MAP
  /\ s1.nextBit = s2.nextBit
  /\ s1.STRUCTURE_HASH_COUNTER = s2.STRUCTURE_HASH_COUNTER

\* the second of two consecutive default-mode generateStructureId(o) calls
\* returns what the first (which returned g) did and leaves the registry and
\* the counters as the first left them
RepeatedGenerate(o, g) ==
  /\ DoGenerate(g.st, Heap, o, "false").ret = g.ret
  /\ SameRegistryAndCounters(DoGenerate(g.st, Heap, o, "false").st, g.st)

\* C21: from every state, two consecutive default-mode generateStructureId
\* calls on the same object return the same ID, and the second call changes
\* neither the registry nor the counters.
C21_Idempotent ==
  \A o \in inputs : RepeatedGenerate(o, DoGenerate(Eng, Heap, o, "false"))

C21_Witness ==
  /\ last.op = "generate" /\ ~last.collision
  /\ last.obj \in DOMAIN OBJECT_ID_CACHE
  /\ OBJECT_ID_CACHE[last.obj] = last.id
  /\ \E o \in inputs : o \notin DOMAIN OBJECT_ID_CACHE
  /\ \E sig \in DOMAIN STRUCTURE_HASH_COUNTER : STRUCTURE_HASH_COUNTER[sig] >= 2

C23_PrimitiveRoots ==
  [][ (last'.op = "generate" /\ last'.value \in PrimitiveRoots)
      => /\ UNCHANGED engVars
         /\ Len(last'.id) = 2
         /\ last'.id[1].level = 0 /\ last'.id[2].level = 1
         /\ last'.id[1].hi = 0 /\ last'.id[2].hi = 0
         /\ \A other \in PrimitiveRoots : \A config \in CallConfigs :
              TypeOf(other) = TypeOf(last'.value) =>
                /\ DoGenerateValue(Eng, other, config).ret = last'.id
                /\ DoGenerateValue(InitialEngine, other, config).ret = last'.id
    ]_vars

C23_Witness ==
  /\ last.op = "generate" /\ last.value.t = "null" /\ last.collision
  /\ STRUCTURE_HASH_COUNTER # <<>>
  /\ OBJECT_ID_CACHE # <<>>

\* the processStructure activations on the native call stack at the deepest
\* point of a traversal of o: the call for level n runs inside the calls for
\* levels 0..n-1, and every level a call runs at gets an entry of levelHashes
StackFrames(st, o) ==
  Cardinality(DOMAIN processStructure(NewTraversal(st), Heap, Ref(o), 0, "").lh)

\* C24: the native call-stack depth of a traversal does not grow with the
\* nesting depth of the input: a chain of nested objects needs as many
\* processStructure activations as the innermost object of the chain alone.
C24_StackIndependentOfDepth ==
  last.op = "generate" =>
    StackFrames(Eng, last.obj) = StackFrames(Eng, ChainRoot + ChainDepth)

\* C25: after resetState() the registry and the counter table are empty, the
\* three caches hold no entry, nextBit is 512, and the global configuration
\* is the one set before the call.
C25_ResetPostState ==
  [][ last'.op = "reset"
      => /\ GLOBAL_KEY_MAP' = <<>>
         /\ STRUCTURE_HASH_COUNTER' = <<>>
         /\ OBJECT_ID_CACHE' = <<>>
         /\ OBJECT_SIGNATURE_CACHE' = <<>>
         /\ STRUCTURE_INFO_CACHE' = <<>>
         /\ nextBit' = 512
         /\ globalConfig' = globalConfig
    ]_vars

C25_Witness ==
  /\ last.op = "reset"
  /\ globalConfig = "true"
  /\ prevIds # {}
  /\ nextBit = 512
  /\ OBJECT_ID_CACHE = <<>>

\* C26: a collision-mode generateStructureId call returns what a traversal
\* made without any cache entry of its input returns, and leaves the final-ID
\* cache, the entry of its input included, exactly as it was.
C26_CollisionBypassesIdCache ==
  [][ (last'.op = "generate" /\ last'.obj # 0 /\ last'.collision)
      => /\ OBJECT_ID_CACHE' = OBJECT_ID_CACHE
         /\ last'.id = DoGenerate(Unseen(Eng, last'.obj), CurrentHeap,
                                  last'.obj, last'.config).ret
         /\ SameRegistryAndCounters(
              Eng',
              DoGenerate(Unseen(Eng, last'.obj), CurrentHeap,
                         last'.obj, last'.config).st)
    ]_vars

C26_Witness ==
  /\ last.op = "generate" /\ last.collision
  /\ last.obj \in DOMAIN OBJECT_ID_CACHE
  /\ OBJECT_ID_CACHE[last.obj] # last.id
  /\ \E o \in inputs : o \notin DOMAIN OBJECT_ID_CACHE

\* C27: a generateStructureId(A) call that changes the counter table leaves
\* no entry for A in the info cache, and the getStructureInfo(A) made next
\* reports the value the counter table holds for A's signature.
C27_AdvanceDropsInfoEntry ==
  [][ ( /\ last'.op = "generate" /\ last'.obj # 0
        /\ STRUCTURE_HASH_COUNTER' # STRUCTURE_HASH_COUNTER )
      => /\ last'.obj \notin DOMAIN STRUCTURE_INFO_CACHE'
         /\ \A config \in CallConfigs :
              DoInfo(Eng', CurrentHeap, last'.obj, config).ret.collisionCount
                = CounterOrZero(STRUCTURE_HASH_COUNTER', SignatureIn(Eng', last'.obj))
    ]_vars

\* the only collision-mode call of the epoch was made on an object that holds
\* a cached default ID without a default-mode generateStructureId call of its
\* own: a getStructureInfo call cached its result before
C27_Witness ==
  /\ last.op = "generate" /\ last.collision
  /\ Cardinality(collisionIds) = 1
  /\ last.obj \in DOMAIN OBJECT_ID_CACHE
  /\ \A p \in defaultIds : p[1] # last.obj
  /\ last.obj \notin DOMAIN STRUCTURE_INFO_CACHE
  /\ STRUCTURE_HASH_COUNTER # <<>>

\* C28: a getStructureInfo call made in collision mode adds no entry to the
\* final-ID cache; it leaves its input in the signature and info caches.
C28_InfoKeepsIdCache ==
  [][ (last'.op = "info" /\ last'.collision)
      => /\ OBJECT_ID_CACHE' = OBJECT_ID_CACHE
         /\ last'.obj \in DOMAIN OBJECT_SIGNATURE_CACHE'
         /\ last'.obj \in DOMAIN STRUCTURE_INFO_CACHE'
    ]_vars

\* C29: importStructureState(exportStructureState()) leaves the registry,
\* the collision counters and nextBit equal to their values before the call.
C29_ExportImportRoundTrip ==
  [][ (last'.op = "import" /\ ~last'.threw) => SameRegistryAndCounters(Eng', Eng) ]_vars

\* C30: after an importStructureState whose bit strings all parse, and until
\* the next resetState, an imported key holds its imported bit and every
\* other key of the registry holds a bit greater than every imported bit.
C30_ImportedBitsKept ==
  \A key \in DOMAIN GLOBAL_KEY_MAP :
    IF key \in DOMAIN imported
    THEN GLOBAL_KEY_MAP[key] = imported[key]
    ELSE \A other \in DOMAIN imported : GLOBAL_KEY_MAP[key] > imported[other]

C30_Witness ==
  /\ last.op = "generate"
  /\ "a" \in DOMAIN imported /\ imported["a"] = 4096
  /\ \E key \in DOMAIN GLOBAL_KEY_MAP : key \notin DOMAIN imported
  /\ nextBit > 2 * 4096

\* C31: registerStructure(obj, c) sets the counter of obj's signature to c
\* and changes no other counter; a collision-mode generateStructureId call
\* returns the counter of its input's signature as L0 and advances it by one,
\* so the call that follows a registerStructure(obj, c) on an input of obj's
\* structure returns L0 = c, and the later ones c+1, c+2, ...
C31_RegisterSetsNextL0 ==
  [][ /\ last'.op = "register" =>
           STRUCTURE_HASH_COUNTER' =
             (SignatureIn(Eng, last'.obj) :> last'.collisionCount)
               @@ STRUCTURE_HASH_COUNTER
      /\ (last'.op = "generate" /\ last'.obj # 0 /\ last'.collision) =>
           /\ last'.id[1]
                = Part(0, CounterOf(STRUCTURE_HASH_COUNTER, SignatureIn(Eng, last'.obj)))
           /\ CounterOf(STRUCTURE_HASH_COUNTER', SignatureIn(Eng, last'.obj))
                = CounterOf(STRUCTURE_HASH_COUNTER, SignatureIn(Eng, last'.obj)) + 1
      /\ ( /\ last.op = "register"
           /\ last'.op = "generate" /\ last'.obj # 0 /\ last'.collision
           /\ SameShape(last.obj, last'.obj) ) =>
           last'.id[1] = Part(0, last.collisionCount)
    ]_vars

\* the second call of a run returned L0 = 2: the first one registered 2
C31_Witness ==
  /\ steps = 2
  /\ last.op = "generate" /\ last.collision
  /\ last.id[1] = Part(0, 2)
  /\ CounterOf(STRUCTURE_HASH_COUNTER, SignatureIn(Eng, last.obj)) = 3

\* C32: within one epoch no call other than resetState and
\* importStructureState lowers or removes the collision counter of a signature.
C32_CountersNeverDecrease ==
  [][ last'.op \notin {"reset", "import"}
      => \A sig \in DOMAIN STRUCTURE_HASH_COUNTER :
           /\ sig \in DOMAIN STRUCTURE_HASH_COUNTER'
           /\ STRUCTURE_HASH_COUNTER'[sig] >= STRUCTURE_HASH_COUNTER[sig]
    ]_vars

\* C33: counters of different shapes are independent: when the first call of
\* an epoch was a collision-mode generateStructureId, a collision-mode call
\* that follows it on an input of another shape (another key name, type or
\* length at some depth, the root included) returns L0 = 0.
C33_OtherShapeStartsAtZero ==
  [][ ( /\ steps = 1
        /\ last.op = "generate" /\ last.obj # 0 /\ last.collision
        /\ last'.op = "generate" /\ last'.obj # 0 /\ last'.collision
        /\ ~SameShape(last.obj, last'.obj) )
      => last'.id[1] = Part(0, 0)
    ]_vars

\* C34: for inputs without reference cycles the ID does not depend on
\* reference sharing: of two consecutive default-mode generateStructureId
\* calls, one on {a: s, b: s} (the same sub-object s twice) and one on
\* {a: {..}, b: {..}} (two distinct sub-objects of s's shape), the second
\* returns the ID the first returned.
C34_SharingIgnored ==
  [][ ( /\ last.op = "generate" /\ ~last.collision
        /\ last'.op = "generate" /\ ~last'.collision
        /\ {last.obj, last'.obj} = {62, 63}
        /\ STRUCTURE_HASH_COUNTER = InitialEngine.STRUCTURE_HASH_COUNTER )
      => last'.id = last.id
    ]_vars

C35_CallOrderInvariant ==
  [][ (last'.op = "generate" /\ last'.obj # 0)
      => SliceSignature(last'.id) = SignatureIn(InitialEngine, last'.obj)
    ]_vars

\* C37: a value contributes the bit of its tag wherever it occurs: the L1
\* segment of the ID of a number, string, boolean, null or undefined root is
\* the bit its tag has as a nested field (null 16, undefined 32).
C37_RootTagBit ==
  [][ (last'.op = "generate" /\ last'.value \in PrimitiveRoots)
      => last'.id[2] = Part(1, TypeBit(getType(Heap, last'.value)))
    ]_vars

\* C38: getCompactInfo(obj) passes getStructureInfo's result through: a
\* getStructureInfo call always returns an id in the full form
\* L{depth}:{decimal}, not a compact one, whatever getCompactInfo calls were
\* made before, and of two consecutive getCompactInfo calls on the same object
\* with the same config the second returns the compact id of the first.
C38_CompactInfoPassThrough ==
  [][ /\ (last'.op = "info" /\ last'.obj # 0) => last'.id[1].level # -3
      /\ ( /\ last.op = "compactInfo" /\ last'.op = "compactInfo"
           /\ last'.obj = last.obj /\ last'.config = last.config )
           => last'.id = last.id
    ]_vars

\* C39: a generateStructureId call on an object advances a collision counter
\* (runs in collision mode) exactly when its config argument has
\* newIdOnCollision: true or, no config being passed, the global setting has;
\* the global setting is { newIdOnCollision: false } at the start, becomes
\* the value given at each setStructureIdConfig call and is changed by no
\* other call; getStructureIdConfig returns it, and modifying the object
\* returned does not change it.
C39_ModeSelection ==
  [][ /\ steps = 0 => globalConfig = "false"
      /\ (last'.op = "generate" /\ last'.obj # 0) =>
           ( (STRUCTURE_HASH_COUNTER' # STRUCTURE_HASH_COUNTER)
             <=> IF last'.config = "undefined" THEN globalConfig = "true"
                 ELSE last'.config = "true" )
      /\ globalConfig' = IF last'.op = "config" THEN last'.config ELSE globalConfig
      /\ last'.op = "getConfig" => last'.config = globalConfig
    ]_vars

\* a call passed {} ran in default mode while the global setting was true
C39_Witness ==
  /\ last.op = "generate" /\ last.config = "absent"
  /\ globalConfig = "true"
  /\ STRUCTURE_HASH_COUNTER = InitialEngine.STRUCTURE_HASH_COUNTER
====
